---------------------------- MODULE Spec2Model ----------------------------
(***************************************************************************)
(* Memory & Retrieval Engine of Aventura (design.md, section 3.1 and       *)
(* Appendix A.1, class MemoryModule).                                      *)
(*                                                                         *)
(* Turns (messages) are identified by their position 1..transcriptLen in   *)
(* the transcript; 0 stands for "no message" (null).  Three state machines *)
(* share the variables:                                                    *)
(*   IndexSpec      the Chapter Index driven through append                *)
(*   ReadSpec       the reads of the Chapter Index and the range query     *)
(*   Spec           chapter creation (handleClassificationComplete and     *)
(*                  createChapter) over a growing transcript               *)
(*   RetrievalSpec  handleUserInput with the static and agentic strategies *)
(*   RetrievalFairSpec  RetrievalSpec with every model call settling       *)
(*   CancelSpec     RetrievalSpec with the external cancellation signal    *)
(*   ReloadSpec     RetrievalSpec with a config hot-reload                 *)
(*   CallSpec       BaseAIService.callLLM, the helper that issues one      *)
(*                  model call                                             *)
(***************************************************************************)
EXTENDS Integers, Sequences, FiniteSets, TLC

VARIABLES
    transcriptLen,   \* number of messages in the Transcript Store
    chapters,        \* the Chapter Index: the committed chapters, in order
    config,          \* MemoryConfig / RetrievalConfig
    pipelines,       \* the createChapter invocations, one record per slot
    indexResult,     \* outcome of the last Chapter Index operation
    ret,             \* the handleUserInput invocation (retrieval)
    lastRead,        \* the last read of the Chapter Index and what it returned
    call             \* the callLLM invocation of a BaseAIService

vars == <<transcriptLen, chapters, config, pipelines, indexResult, ret,
          lastRead, call>>

---------------------------------------------------------------------------
(* Bounds of the model *)

MaxTurns == 4
MaxChapters == 3
MaxPipelines == 2
MaxIter == 2
\* the configured chapter-size threshold N and protected buffer X, scaled down
ThresholdN == 2
BufferX == 1

NoValue == "none"
Turns == 1..MaxTurns

---------------------------------------------------------------------------
(* Chapter records and the Chapter Index *)

\* the ids of the messages from..to, in order (empty when to < from)
MessageRange(from, to) ==
    IF to < from THEN <<>> ELSE [i \in 1..(to - from + 1) |-> from + i - 1]

\* interface Chapter
ChapterRec(number, startId, endId, count, summary, metadata) ==
    [number |-> number, startMessageId |-> startId, endMessageId |-> endId,
     messageCount |-> count, summary |-> summary, metadata |-> metadata]

\* getLastChapterEnd(): the end message of the last chapter, 0 (null) if none
LastChapterEnd(chs) ==
    IF Len(chs) = 0 THEN 0 ELSE chs[Len(chs)].endMessageId

\* append's contiguity check without the start-turn half
AppendAcceptsNumberOnly(chs, ch) ==
    ch.number = Len(chs) + 1

\* append's contiguity check without the number half
AppendAcceptsStartOnly(chs, ch) ==
    Len(chs) = 0 \/ ch.startMessageId = LastChapterEnd(chs) + 1

\* saveChapter that overwrites the record already held under the number
SaveChapterUpsert(chs, ch) ==
    IF ch.number \in 1..Len(chs) THEN [chs EXCEPT ![ch.number] = ch]
    ELSE Append(chs, ch)

\* an append that checks nothing
AppendAcceptsAlways(chs, ch) == TRUE

\* append(chapter): chapter.number == count+1 and chapter.startTurn
\* immediately follows the prior chapter's endTurn
AppendAccepts(chs, ch) ==
    /\ ch.number = Len(chs) + 1
    /\ Len(chs) = 0 \/ ch.startMessageId = LastChapterEnd(chs) + 1

\* saveChapter(chapter): the index after the call (unchanged when refused)
SaveChapter(chs, ch) ==
    IF AppendAccepts(chs, ch) THEN Append(chs, ch) ELSE chs

\* a story loaded with n committed chapters of one message each
LoadedStory(n) ==
    [i \in 1..n |-> ChapterRec(i, i, i, 1, "summary", "metadata")]

---------------------------------------------------------------------------
(* Configuration *)

Modes == {"static", "agentic", "auto"}
AgenticThresholds == {1, 2}
\* maxQueriesPerTurn, scaled down
MaxQueries == 2

Configs ==
    [chapterThreshold : {ThresholdN}, chapterBuffer : {BufferX},
     mode : Modes, agenticThreshold : AgenticThresholds,
     maxAgentIterations : 0..MaxIter, maxQueriesPerTurn : {MaxQueries}]

DefaultConfig ==
    [chapterThreshold |-> ThresholdN, chapterBuffer |-> BufferX,
     mode |-> "static", agenticThreshold |-> 1, maxAgentIterations |-> MaxIter,
     maxQueriesPerTurn |-> MaxQueries]

---------------------------------------------------------------------------
(* The values a retrieval holds *)

\* a query that has not settled yet, and one that ended in an error
Pending == [chapterNumber |-> 0, question |-> "pending", answer |-> <<>>]
Failed == [chapterNumber |-> 0, question |-> "failed", answer |-> <<>>]
\* query_chapter threw "Chapter not found" before any model call
NotFound == [chapterNumber |-> 0, question |-> "not found", answer |-> <<>>]
\* nothing emitted yet; retrievedContext: null; a RetrievedContext
NoContext == [kind |-> "none", queriedChapters |-> <<>>]
NullContext == [kind |-> "null", queriedChapters |-> <<>>]
RetrievedContext(results) == [kind |-> "context", queriedChapters |-> results]

\* no config was replaced while the invocation was running
NoSnapshot ==
    [chapterThreshold |-> 0, chapterBuffer |-> 0, mode |-> NoValue,
     agenticThreshold |-> 0, maxAgentIterations |-> 0, maxQueriesPerTurn |-> 0]

\* handleUserInput before it is called
IdleRetrieval ==
    [pc |-> "idle", strategy |-> NoValue, decision |-> <<>>, results |-> <<>>,
     toolCalls |-> <<>>, iterations |-> 0, complete |-> FALSE,
     gatheredContext |-> <<>>, context |-> NoContext, calls |-> 0,
     cancelled |-> FALSE, snapshot |-> NoSnapshot]

\* no read of the Chapter Index has been made yet
NoRead ==
    [op |-> NoValue, start |-> 0, end |-> 0, status |-> NoValue,
     value |-> <<>>, truncated |-> FALSE]

\* callLLM before it is called
IdleCall ==
    [pc |-> "idle", attempts |-> 0, messages |-> <<>>,
     temperature |-> NoValue, maxTokens |-> NoValue,
     fallbackResult |-> NoValue, aborted |-> FALSE,
     failure |-> NoValue, result |-> NoValue]

---------------------------------------------------------------------------
(* Chapter creation: handleClassificationComplete and createChapter *)

IdlePipeline ==
    [pc |-> "idle", endpoint |-> 0, messages |-> <<>>,
     summary |-> NoValue, metadata |-> NoValue]

InFlight == {p \in 1..MaxPipelines : pipelines[p].pc # "idle"}

\* messagesSinceLastChapter
UnassignedCount == transcriptLen - LastChapterEnd(chapters)

\* getMessagesSinceLastChapter(endpoint.endMessageId)
MessagesSinceLastChapter(chs, endpoint) ==
    MessageRange(LastChapterEnd(chs) + 1, endpoint)

\* startMessageId as the turn after the prior chapter's end
ChapterStartAfterEnd(chs, messages) ==
    IF LastChapterEnd(chs) # 0 THEN LastChapterEnd(chs) + 1 ELSE messages[1]

\* startMessageId: getLastChapterEnd() || messages[0].id
ChapterStart(chs, messages) ==
    IF LastChapterEnd(chs) # 0 THEN LastChapterEnd(chs) ELSE messages[1]

\* the Chapter object createChapter builds after both awaits
BuildChapter(chs, p) ==
    ChapterRec(Len(chs) + 1, ChapterStart(chs, p.messages), p.endpoint,
               Len(p.messages), p.summary, p.metadata)

\* the event handler: no chapter is due
ClassificationNoChapter ==
    /\ UNCHANGED vars

\* the event handler starts createChapter whenever the flag is set
MayStart(p) ==
    /\ pipelines[p].pc = "idle"
    /\ \A q \in 1..(p - 1) : pipelines[q].pc # "idle"

\* handleClassificationComplete with shouldCreateChapter = true: createChapter
\* runs up to its first await (summarizeChapter)
ClassificationComplete(p, endpoint) ==
    /\ MayStart(p)
    /\ endpoint \in 1..transcriptLen
    /\ pipelines' = [pipelines EXCEPT ![p] =
           [pc |-> "summarizing", endpoint |-> endpoint,
            messages |-> MessagesSinceLastChapter(chapters, endpoint),
            summary |-> NoValue, metadata |-> NoValue]]
    /\ UNCHANGED <<transcriptLen, chapters, config, indexResult, ret, lastRead, call>>

\* summarizeChapter saves a record as soon as the summary is there
SummarizeCompleteSavesEarly(p) ==
    /\ pipelines[p].pc = "summarizing"
    /\ pipelines' = [pipelines EXCEPT ![p].pc = "extracting",
                                      ![p].summary = "summary"]
    /\ chapters' = SaveChapter(chapters,
           BuildChapter(chapters, [pipelines[p] EXCEPT !.summary = "summary"]))
    /\ UNCHANGED <<transcriptLen, config, indexResult, ret, lastRead, call>>

\* summarizeChapter returns; createChapter goes on to await extractMetadata
SummarizeComplete(p) ==
    /\ pipelines[p].pc = "summarizing"
    /\ pipelines' = [pipelines EXCEPT ![p].pc = "extracting",
                                      ![p].summary = "summary"]
    /\ UNCHANGED <<transcriptLen, chapters, config, indexResult, ret, lastRead, call>>

\* a failed createChapter that saves the chapter with what it has so far
CreateChapterFailsSavesPartial(p) ==
    /\ pipelines[p].pc \in {"summarizing", "extracting"}
    /\ pipelines' = [pipelines EXCEPT ![p] = IdlePipeline]
    /\ indexResult' = "OperationFailed"
    /\ chapters' = SaveChapter(chapters, BuildChapter(chapters, pipelines[p]))
    /\ UNCHANGED <<transcriptLen, config, ret, lastRead, call>>

\* a model call of createChapter ends in OperationFailed: createChapter throws
CreateChapterFails(p) ==
    /\ pipelines[p].pc \in {"summarizing", "extracting"}
    /\ pipelines' = [pipelines EXCEPT ![p] = IdlePipeline]
    /\ indexResult' = "OperationFailed"
    /\ UNCHANGED <<transcriptLen, chapters, config, ret, lastRead, call>>

\* extractMetadata returns; createChapter builds the Chapter and saves it
ExtractComplete(p) ==
    /\ pipelines[p].pc = "extracting"
    /\ LET ch == BuildChapter(chapters,
                     [pipelines[p] EXCEPT !.metadata = "metadata"])
       IN /\ chapters' = SaveChapter(chapters, ch)
          /\ indexResult' =
                 IF AppendAccepts(chapters, ch) THEN "ok" ELSE "OutOfSequence"
    /\ pipelines' = [pipelines EXCEPT ![p] = IdlePipeline]
    /\ UNCHANGED <<transcriptLen, config, ret, lastRead, call>>

\* the Transcript Store receives a new message
AppendTurn ==
    /\ transcriptLen < MaxTurns
    /\ transcriptLen' = transcriptLen + 1
    /\ UNCHANGED <<chapters, config, pipelines, indexResult, ret, lastRead, call>>

Init ==
    /\ \E n \in 0..1 : chapters = LoadedStory(n) /\ transcriptLen = n
    /\ config = DefaultConfig
    /\ pipelines = [p \in 1..MaxPipelines |-> IdlePipeline]
    /\ indexResult = NoValue
    /\ ret = IdleRetrieval
    /\ lastRead = NoRead
    /\ call = IdleCall

Next ==
    \/ AppendTurn
    \/ ClassificationNoChapter
    \/ \E p \in 1..MaxPipelines, e \in Turns : ClassificationComplete(p, e)
    \/ \E p \in 1..MaxPipelines : SummarizeComplete(p)
    \/ \E p \in 1..MaxPipelines : CreateChapterFails(p)
    \/ \E p \in 1..MaxPipelines : ExtractComplete(p)

Spec == Init /\ [][Next]_vars

---------------------------------------------------------------------------
(* The Chapter Index driven through its own operations *)

\* the Chapter records a caller may hand to append
ChapterInputs ==
    {ChapterRec(n, s, e, IF e >= s THEN e - s + 1 ELSE 0, "summary", "metadata") :
        n \in 1..MaxChapters, s \in Turns, e \in Turns}

\* append(chapter)
IndexAppend(ch) ==
    /\ chapters' = SaveChapter(chapters, ch)
    /\ indexResult' = IF AppendAccepts(chapters, ch) THEN "ok" ELSE "OutOfSequence"
    /\ UNCHANGED <<transcriptLen, config, pipelines, ret, lastRead, call>>

\* getChapter(chapterNumber): is there such a chapter
HasChapter(chs, n) == n \in 1..Len(chs)

\* the range test without start <= end
RangeValidNoOrder(chs, start, end) ==
    1 <= start /\ end <= Len(chs)

\* getRange(start, end): 1 <= start <= end <= count
RangeValid(chs, start, end) ==
    1 <= start /\ start <= end /\ end <= Len(chs)

\* getChaptersInRange(start, end): the chapters start..end, in index order
GetChaptersInRange(chs, start, end) == SubSeq(chs, start, end)

\* what a read returned: its status and value; no read marks a truncation
ReadResult(op, start, end, status, value) ==
    [op |-> op, start |-> start, end |-> end,
     status |-> status, value |-> value, truncated |-> FALSE]

\* the numbers and range ends a caller may ask for
ChapterNumbers == 0..(MaxChapters + 1)

\* get(number): getChapter, then throw 'Chapter not found' when there is none
IndexGet(n) ==
    /\ lastRead' =
         IF HasChapter(chapters, n)
         THEN ReadResult("get", n, n, "ok", <<chapters[n]>>)
         ELSE ReadResult("get", n, n, "NotFound", <<>>)
    /\ UNCHANGED <<transcriptLen, chapters, config, pipelines, indexResult, ret, call>>

\* getRange(start, end)
IndexGetRange(start, end) ==
    /\ lastRead' =
         IF RangeValid(chapters, start, end)
         THEN ReadResult("getRange", start, end, "ok",
                         GetChaptersInRange(chapters, start, end))
         ELSE ReadResult("getRange", start, end, "InvalidRange", <<>>)
    /\ UNCHANGED <<transcriptLen, chapters, config, pipelines, indexResult, ret, call>>

\* combinedContent: the chapters whose fullContent is joined into the prompt
CombinedContent(chs) == chs

\* query_chapters(startChapter, endChapter, question): every chapter of the
\* range goes into combinedContent; the value returned is {range, question,
\* answer}
QueryChapters(start, end) ==
    /\ lastRead' =
         IF RangeValid(chapters, start, end)
         THEN ReadResult("query_chapters", start, end, "ok",
                         CombinedContent(GetChaptersInRange(chapters, start, end)))
         ELSE ReadResult("query_chapters", start, end,
                         "InvalidRange", <<>>)
    /\ UNCHANGED <<transcriptLen, chapters, config, pipelines, indexResult, ret, call>>

IndexInit ==
    /\ transcriptLen = MaxTurns
    /\ chapters = <<>>
    /\ config = DefaultConfig
    /\ pipelines = [p \in 1..MaxPipelines |-> IdlePipeline]
    /\ indexResult = NoValue
    /\ ret = IdleRetrieval
    /\ lastRead = NoRead
    /\ call = IdleCall

IndexNext ==
    \E ch \in ChapterInputs : IndexAppend(ch)

IndexSpec == IndexInit /\ [][IndexNext]_vars

---------------------------------------------------------------------------
(* Reads of the Chapter Index of a loaded story *)

\* the message counts of the chapters of a loaded story
ChapterSizes == {1, 2}

RECURSIVE SumSizes(_, _)
\* the number of messages in the first k chapters
SumSizes(sizes, k) ==
    IF k = 0 THEN 0 ELSE sizes[k] + SumSizes(sizes, k - 1)

StorySizes ==
    {sizes \in UNION {[1..n -> ChapterSizes] : n \in 0..MaxChapters} :
        SumSizes(sizes, Len(sizes)) <= MaxTurns}

\* a story loaded with committed chapters of the given sizes, one after
\* the other from message 1
StoryOf(sizes) ==
    [i \in 1..Len(sizes) |->
        ChapterRec(i, SumSizes(sizes, i - 1) + 1, SumSizes(sizes, i),
                   sizes[i], "summary", "metadata")]

ReadInit ==
    /\ \E sizes \in StorySizes :
           /\ chapters = StoryOf(sizes)
           /\ transcriptLen = SumSizes(sizes, Len(sizes))
    /\ config = DefaultConfig
    /\ pipelines = [p \in 1..MaxPipelines |-> IdlePipeline]
    /\ indexResult = NoValue
    /\ ret = IdleRetrieval
    /\ lastRead = NoRead
    /\ call = IdleCall

ReadNext ==
    \/ \E n \in ChapterNumbers : IndexGet(n)
    \/ \E start \in ChapterNumbers, end \in ChapterNumbers :
           IndexGetRange(start, end)
    \/ \E start \in ChapterNumbers, end \in ChapterNumbers :
           QueryChapters(start, end)

ReadSpec == ReadInit /\ [][ReadNext]_vars

---------------------------------------------------------------------------
(* Retrieval: handleUserInput, staticRetrieval, agenticRetrieval *)

Questions == {"q1", "q2"}
AgentQuestions == {"q1"}
\* what query_chapter returns: the target echoed, and the model's answer
QueryResult(q) ==
    [chapterNumber |-> q.chapter, question |-> q.question,
     answer |-> <<"answer", q.chapter, q.question>>]

\* what list_chapters returns
ListResult(chs) == [chapterNumber |-> 0, question |-> "list_chapters",
                    answer |-> <<"previews", Len(chs)>>]

\* the decisions decideRetrieval may return: (chapter, question) pairs
QueryPairs == [chapter : 1..MaxChapters, question : Questions]
Decisions ==
    {<<>>} \cup {<<a>> : a \in QueryPairs}
           \cup {<<a, b>> : a \in QueryPairs, b \in QueryPairs}
           \cup {<<a, b, c>> : a \in QueryPairs, b \in QueryPairs, c \in QueryPairs}

\* the tool calls one response of the retrieval agent may hold
ToolCalls ==
    {[name |-> "finish_retrieval", chapter |-> 0, question |-> NoValue],
     [name |-> "list_chapters", chapter |-> 0, question |-> NoValue]}
    \cup [name : {"query_chapter"}, chapter : 1..MaxChapters,
          question : AgentQuestions]
ToolCallSeqs ==
    {<<>>} \cup {<<a>> : a \in ToolCalls}
           \cup {<<a, b>> : a \in ToolCalls, b \in ToolCalls}

\* the history test never taken
NoHistoryNever(chs) == Len(chs) < 0

\* "Skip if no history": chapters.length === 0
NoHistory(chs) == Len(chs) = 0

\* useAgentic with the threshold itself counted as agentic
UseAgenticInclusive(cfg, chs) ==
    \/ cfg.mode = "agentic"
    \/ cfg.mode = "auto" /\ Len(chs) >= cfg.agenticThreshold

\* useAgentic
UseAgentic(cfg, chs) ==
    \/ cfg.mode = "agentic"
    \/ cfg.mode = "auto" /\ Len(chs) > cfg.agenticThreshold

\* the loop condition of agenticRetrieval, off by one
LoopContinuesInclusive(r, cfg) ==
    ~r.complete /\ r.iterations <= cfg.maxAgentIterations

\* while (!complete && iterations < this.config.maxAgentIterations)
LoopContinues(r, cfg) ==
    ~r.complete /\ r.iterations < cfg.maxAgentIterations

\* agenticRetrieval at its loop test: the next callRetrievalAgent is issued,
\* or the gathered context is returned
AtLoopTest(r) ==
    IF LoopContinues(r, config)
    THEN [r EXCEPT !.pc = "agentCall", !.toolCalls = <<>>, !.calls = @ + 1]
    ELSE [r EXCEPT !.pc = "returned", !.toolCalls = <<>>,
                   !.context = RetrievedContext(r.gatheredContext)]

\* results filled in the order the queries complete
StoreResultByArrival(results, i, res) ==
    LET free == CHOOSE j \in 1..Len(results) :
                    /\ results[j] = Pending
                    /\ \A k \in 1..(j - 1) : results[k] # Pending
    IN [results EXCEPT ![free] = res]

\* Promise.all: each result sits at the position of its own promise
StoreResult(results, i, res) ==
    [results EXCEPT ![i] = res]

\* handleUserInput up to its first await
UserInput ==
    /\ ret.pc \in {"idle", "returned", "failed"}
    /\ ret' =
         IF NoHistory(chapters)
         THEN [IdleRetrieval EXCEPT !.pc = "returned", !.context = NullContext]
         ELSE IF UseAgentic(config, chapters)
         THEN AtLoopTest([IdleRetrieval EXCEPT !.strategy = "agentic"])
         ELSE [IdleRetrieval EXCEPT !.pc = "deciding", !.strategy = "static",
                                    !.calls = 1]
    /\ UNCHANGED <<transcriptLen, chapters, config, pipelines, indexResult, lastRead, call>>

\* decideRetrieval returns; every query_chapter of the decision is started
DecisionReturns(d) ==
    /\ ret.pc = "deciding"
    /\ LET found == {i \in 1..Len(d) : HasChapter(chapters, d[i].chapter)}
           started == [ret EXCEPT !.decision = d,
                                  !.calls = @ + Cardinality(found)]
       IN ret' =
            IF found # 1..Len(d)
            THEN [started EXCEPT !.pc = "failed",
                      !.results = [i \in 1..Len(d) |->
                                     IF i \in found THEN Pending ELSE NotFound]]
            ELSE IF Len(d) = 0
            THEN [started EXCEPT !.pc = "returned", !.context = RetrievedContext(<<>>)]
            ELSE [started EXCEPT !.pc = "querying",
                      !.results = [i \in 1..Len(d) |-> Pending]]
    /\ UNCHANGED <<transcriptLen, chapters, config, pipelines, indexResult, lastRead, call>>

\* decideRetrieval ends in OperationFailed: staticRetrieval throws
DecisionFails ==
    /\ ret.pc = "deciding"
    /\ ret' = [ret EXCEPT !.pc = "failed"]
    /\ UNCHANGED <<transcriptLen, chapters, config, pipelines, indexResult, lastRead, call>>

\* the combined result returned with the first query that completes
QueryReturnsFirst(i) ==
    /\ ret.pc = "querying"
    /\ i \in 1..Len(ret.results)
    /\ ret.results[i] = Pending
    /\ LET results == StoreResult(ret.results, i, QueryResult(ret.decision[i]))
       IN ret' = [ret EXCEPT !.results = results, !.pc = "returned",
                             !.context = RetrievedContext(results)]
    /\ UNCHANGED <<transcriptLen, chapters, config, pipelines, indexResult, lastRead, call>>

\* the i-th executeQuery returns; Promise.all resolves with the last one
QueryReturns(i) ==
    /\ ret.pc = "querying"
    /\ i \in 1..Len(ret.results)
    /\ ret.results[i] = Pending
    /\ LET results == StoreResult(ret.results, i, QueryResult(ret.decision[i]))
       IN ret' =
            IF \A j \in 1..Len(results) : results[j] # Pending
            THEN [ret EXCEPT !.results = results, !.pc = "returned",
                             !.context = RetrievedContext(results)]
            ELSE [ret EXCEPT !.results = results]
    /\ UNCHANGED <<transcriptLen, chapters, config, pipelines, indexResult, lastRead, call>>

\* the i-th executeQuery ends in OperationFailed: Promise.all rejects
QueryFails(i) ==
    /\ ret.pc = "querying"
    /\ i \in 1..Len(ret.results)
    /\ ret.results[i] = Pending
    /\ ret' = [ret EXCEPT !.results[i] = Failed, !.pc = "failed"]
    /\ UNCHANGED <<transcriptLen, chapters, config, pipelines, indexResult, lastRead, call>>

\* callRetrievalAgent returns a response with its tool calls
AgentResponds(tcs) ==
    /\ ret.pc = "agentCall"
    /\ ret' = [ret EXCEPT !.pc = "tools", !.toolCalls = tcs]
    /\ UNCHANGED <<transcriptLen, chapters, config, pipelines, indexResult, lastRead, call>>

\* callRetrievalAgent ends in OperationFailed: agenticRetrieval throws
AgentCallFails ==
    /\ ret.pc = "agentCall"
    /\ ret' = [ret EXCEPT !.pc = "failed"]
    /\ UNCHANGED <<transcriptLen, chapters, config, pipelines, indexResult, lastRead, call>>

\* the for loop going on to the next tool call after finish_retrieval
ToolCallStepNoBreak ==
    /\ ret.pc = "tools"
    /\ ret' =
         IF ret.toolCalls = <<>>
         THEN AtLoopTest([ret EXCEPT !.iterations = @ + 1])
         ELSE LET tc == Head(ret.toolCalls)
              IN CASE tc.name = "finish_retrieval" ->
                        [ret EXCEPT !.complete = TRUE, !.toolCalls = Tail(@)]
                   [] tc.name = "list_chapters" ->
                        [ret EXCEPT !.toolCalls = Tail(@),
                             !.gatheredContext = Append(@, ListResult(chapters))]
                   [] OTHER ->
                        IF HasChapter(chapters, tc.chapter)
                        THEN [ret EXCEPT !.pc = "toolQuery", !.calls = @ + 1]
                        ELSE [ret EXCEPT !.pc = "failed"]
    /\ UNCHANGED <<transcriptLen, chapters, config, pipelines, indexResult, lastRead, call>>

\* one turn of "for (const toolCall of response.toolCalls)", up to the next
\* await; iterations++ and the loop test follow the last tool call
ToolCallStep ==
    /\ ret.pc = "tools"
    /\ ret' =
         IF ret.toolCalls = <<>>
         THEN AtLoopTest([ret EXCEPT !.iterations = @ + 1])
         ELSE LET tc == Head(ret.toolCalls)
              IN CASE tc.name = "finish_retrieval" ->
                        AtLoopTest([ret EXCEPT !.complete = TRUE,
                                               !.iterations = @ + 1])
                   [] tc.name = "list_chapters" ->
                        [ret EXCEPT !.toolCalls = Tail(@),
                             !.gatheredContext = Append(@, ListResult(chapters))]
                   [] OTHER ->
                        IF HasChapter(chapters, tc.chapter)
                        THEN [ret EXCEPT !.pc = "toolQuery", !.calls = @ + 1]
                        ELSE [ret EXCEPT !.pc = "failed"]
    /\ UNCHANGED <<transcriptLen, chapters, config, pipelines, indexResult, lastRead, call>>

\* the executeQuery of a query_chapter tool call returns
ToolQueryReturns ==
    /\ ret.pc = "toolQuery"
    /\ ret' = [ret EXCEPT !.pc = "tools", !.toolCalls = Tail(@),
                   !.gatheredContext = Append(@, QueryResult(Head(ret.toolCalls)))]
    /\ UNCHANGED <<transcriptLen, chapters, config, pipelines, indexResult, lastRead, call>>

\* the executeQuery of a tool call ends in OperationFailed
ToolQueryFails ==
    /\ ret.pc = "toolQuery"
    /\ ret' = [ret EXCEPT !.pc = "failed"]
    /\ UNCHANGED <<transcriptLen, chapters, config, pipelines, indexResult, lastRead, call>>

RetrievalInit ==
    /\ \E n \in 0..MaxChapters : chapters = LoadedStory(n) /\ transcriptLen = n
    /\ config \in Configs
    /\ pipelines = [p \in 1..MaxPipelines |-> IdlePipeline]
    /\ indexResult = NoValue
    /\ ret = IdleRetrieval
    /\ lastRead = NoRead
    /\ call = IdleCall

RetrievalNext ==
    \/ UserInput
    \/ \E d \in Decisions : DecisionReturns(d)
    \/ DecisionFails
    \/ \E i \in 1..3 : QueryReturns(i)
    \/ \E i \in 1..3 : QueryFails(i)
    \/ \E tcs \in ToolCallSeqs : AgentResponds(tcs)
    \/ AgentCallFails
    \/ ToolCallStep
    \/ ToolQueryReturns
    \/ ToolQueryFails

RetrievalSpec == RetrievalInit /\ [][RetrievalNext]_vars

\* a model call that was issued settles: it returns or it fails
ModelCallSettles ==
    \/ \E d \in Decisions : DecisionReturns(d)
    \/ DecisionFails
    \/ \E i \in 1..3 : QueryReturns(i)
    \/ \E i \in 1..3 : QueryFails(i)
    \/ \E tcs \in ToolCallSeqs : AgentResponds(tcs)
    \/ AgentCallFails
    \/ ToolQueryReturns
    \/ ToolQueryFails

\* retrieval where every issued model call eventually settles and the code
\* between two awaits runs on
RetrievalFairSpec ==
    /\ RetrievalSpec
    /\ WF_vars(ModelCallSettles)
    /\ WF_vars(ToolCallStep)

---------------------------------------------------------------------------
(* Retrieval with the external cancellation signal *)

\* the cancellation signal fires while handleUserInput is running; neither
\* handleUserInput nor the two retrieval methods take or test a signal
CancelSignal ==
    /\ ret.pc \notin {"idle", "returned", "failed"}
    /\ ~ret.cancelled
    /\ ret' = [ret EXCEPT !.cancelled = TRUE]
    /\ UNCHANGED <<transcriptLen, chapters, config, pipelines, indexResult, lastRead, call>>

CancelNext ==
    \/ RetrievalNext
    \/ CancelSignal

CancelSpec == RetrievalInit /\ [][CancelNext]_vars

---------------------------------------------------------------------------
(* Retrieval with a config hot-reload *)

\* this.config is replaced while handleUserInput is running; the config the
\* invocation started with is kept in ret.snapshot for comparison
ConfigReload(c) ==
    /\ ret.pc \notin {"idle", "returned", "failed"}
    /\ ret.snapshot = NoSnapshot
    /\ c # config
    /\ config' = c
    /\ ret' = [ret EXCEPT !.snapshot = config]
    /\ UNCHANGED <<transcriptLen, chapters, pipelines, indexResult, lastRead, call>>

ReloadNext ==
    \/ RetrievalNext
    \/ \E c \in Configs : ConfigReload(c)

ReloadSpec == RetrievalInit /\ [][ReloadNext]_vars

---------------------------------------------------------------------------
(* BaseAIService.callLLM: one model call with parsing and a fallback *)

\* what the preset holds, and what a caller may pass as an override
Undefined == "undefined"
PresetTemperature == "preset temperature"
PresetMaxTokens == "preset maxTokens"
TemperatureOptions == {Undefined, "option temperature"}
MaxTokensOptions == {Undefined, "option maxTokens"}
FallbackResults == {"fallback-a", "fallback-b"}
\* options.additionalMessages, by role; none when it is not given
AdditionalMessages == {<<>>, <<"assistant">>, <<"assistant", "tool">>}
\* response.content: two well-formed contents and a malformed one
Contents == {"json-a", "json-b", "malformed"}

\* a ?? b
Coalesce(a, b) == IF a = Undefined THEN b ELSE a

\* the messages of the request, by role
RequestMessages(additional) == <<"system">> \o additional \o <<"user">>

\* options.parseResponse(content) throws on malformed content
ParseThrows(content) == content = "malformed"
ParseResponse(content) ==
    CASE content = "json-a" -> "a"
      [] content = "json-b" -> "b"
      [] OTHER -> NoValue

\* the catch block: the error is logged and fallbackResult is returned
Caught(c, failure) ==
    [c EXCEPT !.pc = "returned", !.failure = failure,
              !.result = c.fallbackResult]

\* callLLM up to "await this.provider.generateResponse(...)"
CallLLM(additional, temperature, maxTokens, fallbackResult) ==
    /\ call.pc \in {"idle", "returned"}
    /\ call' = [pc |-> "sending", attempts |-> 1,
                messages |-> RequestMessages(additional),
                temperature |-> Coalesce(temperature, PresetTemperature),
                maxTokens |-> Coalesce(maxTokens, PresetMaxTokens),
                fallbackResult |-> fallbackResult, aborted |-> FALSE,
                failure |-> NoValue, result |-> NoValue]
    /\ UNCHANGED <<transcriptLen, chapters, config, pipelines, indexResult, ret, lastRead>>

\* generateResponse resolves; the content is parsed, or parseResponse throws
ProviderResponds(content) ==
    /\ call.pc = "sending"
    /\ call' = IF ParseThrows(content)
               THEN Caught(call, "malformed")
               ELSE [call EXCEPT !.pc = "returned",
                                 !.result = ParseResponse(content)]
    /\ UNCHANGED <<transcriptLen, chapters, config, pipelines, indexResult, ret, lastRead>>

\* generateResponse rejects (API failure)
ProviderThrows ==
    /\ call.pc = "sending"
    /\ call' = Caught(call, "api")
    /\ UNCHANGED <<transcriptLen, chapters, config, pipelines, indexResult, ret, lastRead>>

\* options.signal aborts the request: generateResponse rejects
SignalAborts ==
    /\ call.pc = "sending"
    /\ call' = Caught([call EXCEPT !.aborted = TRUE], "aborted")
    /\ UNCHANGED <<transcriptLen, chapters, config, pipelines, indexResult, ret, lastRead>>

CallInit ==
    /\ transcriptLen = 0
    /\ chapters = <<>>
    /\ config = DefaultConfig
    /\ pipelines = [p \in 1..MaxPipelines |-> IdlePipeline]
    /\ indexResult = NoValue
    /\ ret = IdleRetrieval
    /\ lastRead = NoRead
    /\ call = IdleCall

CallNext ==
    \/ \E a \in AdditionalMessages, t \in TemperatureOptions,
          m \in MaxTokensOptions, f \in FallbackResults : CallLLM(a, t, m, f)
    \/ \E content \in Contents : ProviderResponds(content)
    \/ ProviderThrows
    \/ SignalAborts

CallSpec == CallInit /\ [][CallNext]_vars

---------------------------------------------------------------------------
(* Properties of the Chapter Index (IndexSpec) *)

\* C1: after any sequence of appends the Chapter Index accepted, the first
\* chapter has number 1 and each chapter's endTurn immediately precedes the
\* next chapter's startTurn.
C1_Contiguity ==
    /\ Len(chapters) >= 1 => chapters[1].number = 1
    /\ \A i \in 1..(Len(chapters) - 1) :
           chapters[i].endMessageId + 1 = chapters[i + 1].startMessageId

C1_Witness ==
    /\ Len(chapters) >= 2
    /\ indexResult = "ok"

\* C2: after any sequence of successful appends the committed chapter numbers
\* are exactly 1..count: the i-th chapter has number i.
C2_MonotonicNumbering ==
    /\ \A i \in 1..Len(chapters) : chapters[i].number = i
    /\ {chapters[i].number : i \in 1..Len(chapters)} = 1..Len(chapters)

C2_Witness ==
    /\ Len(chapters) >= 3
    /\ indexResult = "OutOfSequence"

\* C19: an append whose chapter has a number other than count + 1, or a
\* start that does not immediately follow the prior chapter's end, ends in
\* OutOfSequence, and an append that ends in OutOfSequence leaves the
\* Chapter Index exactly as it was.
C19_OutOfSequenceLeavesIndex ==
    [][\A ch \in ChapterInputs :
          IndexAppend(ch)
          => /\ (\/ ch.number # Len(chapters) + 1
                 \/ /\ Len(chapters) > 0
                    /\ ch.startMessageId #
                           chapters[Len(chapters)].endMessageId + 1)
                => (indexResult' = "OutOfSequence" /\ chapters' = chapters)
             /\ indexResult' = "OutOfSequence" => chapters' = chapters]_vars

\* an append was refused by an index that holds one chapter and has
\* messages left to cover
C19_Witness ==
    /\ Len(chapters) = 1
    /\ chapters[1].endMessageId < transcriptLen
    /\ indexResult = "OutOfSequence"

---------------------------------------------------------------------------
(* Properties of chapter creation (Spec) *)

\* C3: at most one chapter-creation pipeline is in flight at a time.
C3_OnePipelineAtATime ==
    Cardinality(InFlight) <= 1

C5_ThresholdTrigger ==
    [][\A p \in 1..MaxPipelines :
          (pipelines[p].pc = "idle" /\ pipelines'[p].pc # "idle")
          => UnassignedCount >= config.chapterThreshold + config.chapterBuffer]_vars

\* C6: every chapter a reader can see in the index, at any point of a
\* chapter-creation pipeline, has its endpoint, summary and metadata.
C6_NoPartialChapter ==
    \A i \in 1..Len(chapters) :
        /\ chapters[i].endMessageId # 0
        /\ chapters[i].summary # NoValue
        /\ chapters[i].metadata # NoValue

\* a pipeline holds a summary but no metadata yet, beside a chapter that an
\* earlier pipeline committed
C6_Witness ==
    /\ \E p \in 1..MaxPipelines :
           /\ pipelines[p].pc = "extracting"
           /\ pipelines[p].summary # NoValue
           /\ pipelines[p].metadata = NoValue
    /\ Len(chapters) = 1
    /\ chapters[1].endMessageId >= 2

---------------------------------------------------------------------------
(* Properties of retrieval (RetrievalSpec) *)

Succeeded(res) == res # Failed

\* C7: when query execution failed for some of the selected chapters, static
\* retrieval still returns, and its context holds the results of exactly the
\* queries that succeeded.
C7_PartialFailureIsolation ==
    (/\ ret.strategy = "static"
     /\ \E i \in 1..Len(ret.results) : ret.results[i] = Failed
     /\ \A i \in 1..Len(ret.results) : ret.results[i] # NotFound)
    => /\ ret.pc \in {"querying", "returned"}
       /\ ret.pc = "returned" =>
              ret.context = RetrievedContext(SelectSeq(ret.results, Succeeded))

\* C8: handleUserInput on a story without chapters returns a null context
\* and has issued no model call, in every planner mode.
C8_EmptyHistoryShortCircuit ==
    (Len(chapters) = 0 /\ ret.pc # "idle")
    => /\ ret.pc = "returned"
       /\ ret.context = NullContext
       /\ ret.calls = 0

C8_Witness ==
    /\ Len(chapters) = 0
    /\ config.mode = "agentic"
    /\ config.maxAgentIterations > 0
    /\ ret.pc = "returned"

\* C9: an agentic retrieval never runs more than maxAgentIterations
\* iterations, and one that returns without finish_retrieval has run exactly
\* maxAgentIterations iterations and returns the results gathered so far.
C9_AgenticIterationCap ==
    ret.strategy = "agentic"
    => /\ ret.iterations <= config.maxAgentIterations
       /\ (ret.pc = "returned" /\ ~ret.complete)
          => /\ ret.iterations = config.maxAgentIterations
             /\ ret.context = RetrievedContext(ret.gatheredContext)

C9_Witness ==
    /\ ret.strategy = "agentic"
    /\ ret.pc = "returned"
    /\ ~ret.complete
    /\ ret.iterations = MaxIter
    /\ Len(ret.gatheredContext) >= 2
    /\ ret.context.queriedChapters = ret.gatheredContext

\* C10: while the queries of a static decision complete, in any order, each
\* result sits at the position of its own (chapter, question) pair; when all
\* k have succeeded, k + 1 model calls were issued and the context has
\* exactly k entries, the i-th being the answer to the i-th pair.
C10_ResultsKeyedByTarget ==
    (ret.strategy = "static" /\ ret.pc \in {"querying", "returned"})
    => /\ Len(ret.results) = Len(ret.decision)
       /\ ret.calls = 1 + Len(ret.decision)
       /\ \A i \in 1..Len(ret.results) :
              ret.results[i] \in {Pending, QueryResult(ret.decision[i])}
       /\ ret.pc = "returned" =>
              /\ Len(ret.context.queriedChapters) = Len(ret.decision)
              /\ \A i \in 1..Len(ret.decision) :
                     ret.context.queriedChapters[i] = QueryResult(ret.decision[i])

C10_Witness ==
    /\ ret.strategy = "static"
    /\ ret.pc = "returned"
    /\ Len(ret.decision) = 2
    /\ ret.decision[1].chapter = 3
    /\ ret.decision[2].chapter = 1
    /\ Len(ret.context.queriedChapters) = 2

\* C11: a retrieval whose cancellation signal fired before it finished
\* returns no QueryResults at all, and no result of a call that was still in
\* flight is stored or gathered after the signal.
C11_CancelReturnsNothing ==
    /\ [](ret.cancelled =>
            /\ ret.pc # "returned"
            /\ ret.context.queriedChapters = <<>>)
    /\ [][ret.cancelled =>
            /\ ret'.results = ret.results \/ ~ret'.cancelled
            /\ ret'.gatheredContext = ret.gatheredContext \/ ~ret'.cancelled]_vars

\* C12: when a pipeline that was started alone, with N + X + 1 unassigned
\* turns, finishes its two model calls, exactly one chapter is added; its
\* number is the prior count + 1, it starts at the turn right after the prior
\* chapter's end (turn 1 if it is the first) and it ends within the first N
\* of the unassigned turns.
C12_BoundaryProducesOneChapter ==
    [][\A p \in 1..MaxPipelines :
          (/\ pipelines[p].pc = "extracting"
           /\ pipelines'[p].pc = "idle"
           /\ indexResult' # "OperationFailed"
           /\ InFlight = {p}
           /\ UnassignedCount = config.chapterThreshold + config.chapterBuffer + 1
           /\ pipelines[p].messages =
                  MessagesSinceLastChapter(chapters, pipelines[p].endpoint))
          => /\ Len(chapters') = Len(chapters) + 1
             /\ LET ch == chapters'[Len(chapters')]
                IN /\ ch.number = Len(chapters) + 1
                   /\ ch.startMessageId = LastChapterEnd(chapters) + 1
                   /\ ch.endMessageId \in
                          (LastChapterEnd(chapters) + 1) ..
                          (LastChapterEnd(chapters) + config.chapterThreshold)]_vars

\* C23: right after any commit at least X turns remain unassigned: the most
\* recent X turns are never the end of a committed chapter.
C23_ProtectedBuffer ==
    [][\A p \in 1..MaxPipelines :
          (/\ pipelines[p].pc = "extracting"
           /\ pipelines'[p].pc = "idle"
           /\ chapters' # chapters)
          => UnassignedCount' >= config.chapterBuffer]_vars

\* C29: the handler starts a pipeline only when the flag is set and at least
\* N + X turns are unassigned, and starting it changes neither the index nor
\* the transcript; with the flag unset it changes nothing at all.
C29_TriggerNeedsFlagAndThreshold ==
    [][/\ \A p \in 1..MaxPipelines, e \in Turns :
             ClassificationComplete(p, e)
             => /\ UnassignedCount >=
                       config.chapterThreshold + config.chapterBuffer
                /\ chapters' = chapters
                /\ transcriptLen' = transcriptLen
       /\ ClassificationNoChapter => UNCHANGED vars]_vars

\* C14: the endpoint a pipeline works with is always one of the candidate
\* turns, the oldest N turns that were unassigned when it was selected: the
\* messages the pipeline took, from the first unassigned turn to the
\* endpoint, are at least 1 and at most N.
C14_EndpointAmongCandidates ==
    \A p \in 1..MaxPipelines :
        pipelines[p].pc # "idle"
        => Len(pipelines[p].messages) \in 1..config.chapterThreshold

\* C15: a static retrieval whose decision step ended in OperationFailed has
\* returned a null context without issuing any query: it has not thrown, and
\* the decision call is the only model call it made.
C15_DecisionFailureReturnsNull ==
    (/\ ret.strategy = "static"
     /\ ret.pc \in {"returned", "failed"}
     /\ ret.decision = <<>>
     /\ ret.context # RetrievedContext(<<>>))
    => /\ ret.pc = "returned"
       /\ ret.context = NullContext
       /\ ret.calls = 1

\* C16: when summarizeChapter or extractMetadata ends in OperationFailed the
\* Chapter Index is unchanged, the pipeline is no longer in flight and the
\* turns it had taken are still unassigned; and whenever no pipeline is in
\* flight after such a failure, a trigger can start a new attempt.
C16_FailedCreationAbandoned ==
    /\ [][\A p \in 1..MaxPipelines :
            (/\ pipelines[p].pc \in {"summarizing", "extracting"}
             /\ pipelines'[p].pc = "idle"
             /\ indexResult' = "OperationFailed")
            => /\ chapters' = chapters
               /\ p \notin InFlight'
               /\ InFlight' = InFlight \ {p}
               /\ UnassignedCount' = UnassignedCount]_vars
    /\ []((indexResult = "OperationFailed" /\ InFlight = {})
           => ENABLED ClassificationComplete(1, transcriptLen))

\* after a failed attempt left the index empty, a new pipeline is in flight
\* over the same turns
C16_Witness ==
    /\ indexResult = "OperationFailed"
    /\ Len(chapters) = 0
    /\ InFlight = {1}
    /\ pipelines[1].pc = "extracting"
    /\ pipelines[1].messages = MessageRange(1, transcriptLen)
    /\ transcriptLen >= 2

\* C20: a retrieval over a story with chapters runs the static strategy in
\* mode static, the agentic strategy in mode agentic, and in mode auto the
\* agentic strategy when the chapter count exceeds agenticThreshold and the
\* static strategy otherwise.
C20_PlannerSelection ==
    (ret.pc # "idle" /\ Len(chapters) > 0)
    => ret.strategy =
          CASE config.mode = "static" -> "static"
            [] config.mode = "agentic" -> "agentic"
            [] config.mode = "auto" ->
                  IF Len(chapters) > config.agenticThreshold
                  THEN "agentic" ELSE "static"

\* mode auto with exactly agenticThreshold chapters has run statically
C20_Witness ==
    /\ config.mode = "auto"
    /\ Len(chapters) = config.agenticThreshold
    /\ ret.strategy = "static"
    /\ ret.pc = "returned"
    /\ Len(ret.context.queriedChapters) >= 1

\* C24: static retrieval goes from the decision to the queries to the
\* return: while the decision call is out no query has been issued; a step
\* never leads back to an earlier phase; and the combined result is returned
\* only when no issued query is still pending.
C24_StaticPhaseOrder ==
    /\ []((ret.strategy = "static" /\ ret.pc = "deciding")
           => (ret.calls = 1 /\ ret.results = <<>> /\ ret.decision = <<>>))
    /\ []((ret.strategy = "static" /\ ret.pc = "returned")
           => /\ Len(ret.results) = Len(ret.decision)
              /\ \A i \in 1..Len(ret.results) : ret.results[i] # Pending
              /\ ret.context = RetrievedContext(ret.results))
    /\ [][(ret.strategy = "static" /\ ret.pc \in {"deciding", "querying"})
            => /\ ret.pc = "querying" => ret'.pc # "deciding"
               /\ ret'.pc = "querying" => ret.pc \in {"deciding", "querying"}
               /\ ret.calls # ret'.calls => ret.pc = "deciding"]_vars

\* a result returned after three queries were issued and completed
C24_Witness ==
    /\ ret.strategy = "static"
    /\ ret.pc = "returned"
    /\ Len(ret.decision) = 3
    /\ ret.calls = 4
    /\ Len(ret.context.queriedChapters) = 3

\* C25: a static retrieval has never issued more than maxQueriesPerTurn
\* queries: when the decision holds more pairs, only the first
\* maxQueriesPerTurn of them, in the order returned, are queried.
C25_QueryCap ==
    (ret.strategy = "static" /\ ret.pc \in {"querying", "returned"})
    => /\ Len(ret.results) <= config.maxQueriesPerTurn
       /\ ret.calls <= 1 + config.maxQueriesPerTurn
       /\ \A i \in 1..Len(ret.results) :
              ret.results[i] \in {Pending, QueryResult(ret.decision[i])}

\* the iterations of the agentic loop that have started
IterationsStarted ==
    ret.iterations +
        (IF ret.pc \in {"agentCall", "tools", "toolQuery"} THEN 1 ELSE 0)

\* C26: once finish_retrieval was called the agentic loop has returned and
\* no tool call is left to run; no more than maxAgentIterations iterations
\* start; and the model call of an iteration is issued only when every tool
\* call of the iteration before it is done.
C26_AgenticLoopTermination ==
    /\ [](ret.strategy = "agentic"
           => /\ ret.complete => (ret.pc = "returned" /\ ret.toolCalls = <<>>)
              /\ IterationsStarted <= config.maxAgentIterations
              /\ ret.pc = "agentCall" => ret.toolCalls = <<>>)
    /\ [][(/\ ret.strategy = "agentic"
            /\ ret.pc \in {"agentCall", "tools", "toolQuery"}
            /\ ret'.pc = "agentCall")
           => /\ ret.pc = "tools"
              /\ ret.toolCalls = <<>>
              /\ ret'.iterations = ret.iterations + 1
              /\ ret'.calls = ret.calls + 1]_vars

\* finish_retrieval ended the loop in its first iteration, after a tool call
\* of the same response, with iterations to spare
C26_Witness ==
    /\ ret.strategy = "agentic"
    /\ ret.pc = "returned"
    /\ ret.complete
    /\ ret.iterations = 1
    /\ config.maxAgentIterations = 2
    /\ Len(ret.gatheredContext) = 1

\* C27: when the model call of an agent iteration does not come back with a
\* response, agentic retrieval returns null, whatever it had gathered, and
\* does not throw.
C27_AgentFailureReturnsNull ==
    [][(/\ ret.strategy = "agentic"
        /\ ret.pc = "agentCall"
        /\ ret'.pc # "tools")
       => /\ ret'.pc = "returned"
          /\ ret'.context = NullContext]_vars

---------------------------------------------------------------------------
(* Properties of a model call (CallSpec) *)

\* "Retry up to 5 times"
RetryBudget == 5

\* C17: a model call that failed or returned malformed output has been
\* re-issued until the retry budget was used up: the operation ends in
\* failure only with its 5th attempt, and never makes more than 5.
C17_RetryUpToBudget ==
    /\ call.attempts <= RetryBudget
    /\ (call.pc = "returned" /\ call.failure \in {"api", "malformed"})
       => call.attempts = RetryBudget

---------------------------------------------------------------------------
(* Properties of the range query (ReadSpec) *)

\* the size of the joined content, in messages
RECURSIVE ContentSize(_)
ContentSize(chs) ==
    IF chs = <<>> THEN 0 ELSE Head(chs).messageCount + ContentSize(Tail(chs))

\* the chapters left after dropping the oldest until the rest fits
RECURSIVE MostRecentThatFit(_, _)
MostRecentThatFit(chs, budget) ==
    IF ContentSize(chs) <= budget THEN chs
    ELSE MostRecentThatFit(Tail(chs), budget)

\* C13: under any budget that holds the most recent chapter of the range but
\* not every chapter of it, the range query includes exactly the most recent
\* chapters that fit, the oldest being dropped first, and its answer notes
\* the truncation.
C13_RangeTruncation ==
    \A budget \in 1..MaxTurns :
        (/\ lastRead.op = "query_chapters"
         /\ lastRead.status = "ok"
         /\ chapters[lastRead.end].messageCount <= budget
         /\ ContentSize(SubSeq(chapters, lastRead.start, lastRead.end)) > budget)
        => /\ lastRead.value =
                  MostRecentThatFit(
                      SubSeq(chapters, lastRead.start, lastRead.end), budget)
           /\ lastRead.truncated

---------------------------------------------------------------------------
(* Properties of the Chapter Index reads (ReadSpec) *)

\* C18: for an index holding count chapters, get(number) ends in NotFound,
\* with no chapter, for every number outside 1..count and returns the
\* chapter otherwise; getRange(start, end) ends in InvalidRange, with no
\* chapter, unless 1 <= start <= end <= count, and otherwise returns the
\* chapters start..end in ascending order.  Either error is the outcome of
\* the one call that was made.
C18_IndexReadErrors ==
    /\ lastRead.op = "get" =>
           IF lastRead.start >= 1 /\ lastRead.start <= Len(chapters)
           THEN /\ lastRead.status = "ok"
                /\ lastRead.value = <<chapters[lastRead.start]>>
           ELSE /\ lastRead.status = "NotFound"
                /\ lastRead.value = <<>>
    /\ lastRead.op = "getRange" =>
           IF /\ 1 <= lastRead.start
              /\ lastRead.start <= lastRead.end
              /\ lastRead.end <= Len(chapters)
           THEN /\ lastRead.status = "ok"
                /\ Len(lastRead.value) = lastRead.end - lastRead.start + 1
                /\ \A i \in 1..Len(lastRead.value) :
                       /\ lastRead.value[i].number = lastRead.start + i - 1
                       /\ lastRead.value[i] = chapters[lastRead.start + i - 1]
           ELSE /\ lastRead.status = "InvalidRange"
                /\ lastRead.value = <<>>

\* a range whose ends both name chapters of the index, in the wrong order
C18_Witness ==
    /\ lastRead.op = "getRange"
    /\ lastRead.start > lastRead.end
    /\ lastRead.end >= 1
    /\ lastRead.start <= Len(chapters)
    /\ lastRead.status = "InvalidRange"

---------------------------------------------------------------------------
(* Properties of retrieval under fair model calls (RetrievalFairSpec) *)

\* C21: every handleUserInput call that is running eventually returns a
\* context or null, under the static and the agentic strategy.
C21_EveryTurnReturns ==
    (ret.pc \in {"deciding", "querying", "agentCall", "tools", "toolQuery"})
        ~> (ret.pc = "returned")

---------------------------------------------------------------------------
(* Properties of retrieval with a config hot-reload (ReloadSpec) *)

\* C28: a retrieval during which the config was replaced runs to its end on
\* the config it started with: its strategy is the one that config selects,
\* it starts no more iterations than that config's maxAgentIterations, and
\* when it returns without finish_retrieval it has run exactly that many.
C28_ConfigSnapshot ==
    ret.snapshot # NoSnapshot
    => /\ ret.strategy =
              IF UseAgentic(ret.snapshot, chapters) THEN "agentic" ELSE "static"
       /\ ret.strategy = "agentic"
          => /\ IterationsStarted <= ret.snapshot.maxAgentIterations
             /\ (ret.pc = "returned" /\ ~ret.complete)
                => ret.iterations = ret.snapshot.maxAgentIterations

---------------------------------------------------------------------------
(* The committed chapters and the transcript (Spec) *)

\* the turns of a chapter
Members(ch) == ch.startMessageId .. ch.endMessageId

\* C30: the committed chapters cover exactly a prefix of the transcript:
\* no turn is in two chapters, every turn up to the last chapter's end is in
\* one, each chapter's messageCount is the number of its turns, at least 1
\* and at most N, and the counts plus the unassigned tail make up the
\* transcript length.
C30_ChaptersCoverPrefix ==
    /\ \A i, j \in 1..Len(chapters) :
           i # j => Members(chapters[i]) \cap Members(chapters[j]) = {}
    /\ UNION {Members(chapters[i]) : i \in 1..Len(chapters)} =
           1..LastChapterEnd(chapters)
    /\ \A i \in 1..Len(chapters) :
           /\ chapters[i].messageCount = Cardinality(Members(chapters[i]))
           /\ chapters[i].messageCount >= 1
           /\ chapters[i].messageCount <= config.chapterThreshold
    /\ LastChapterEnd(chapters) <= transcriptLen
    /\ ContentSize(chapters) + UnassignedCount = transcriptLen

===========================================================================
